---- MODULE Spec2Model ----
(***************************************************************************)
(* Straight-line depreciation export for Snipe-IT assets (src/main.py).   *)
(*                                                                         *)
(* The model follows main(): parse the reporting window, fetch the asset  *)
(* list, and for every asset fetch its detail record, resolve the useful  *)
(* life (own schedule, else the model's schedule), compute the prorated   *)
(* amount, accumulate, then write the CSV summary and, on request, the    *)
(* QIF ledger file.                                                       *)
(*                                                                         *)
(* Representation                                                          *)
(*  - JSON values are tagged records: [t |-> "null"], [t |-> "str", s],    *)
(*    [t |-> "int", n], [t |-> "obj", f] with f a function from keys.      *)
(*  - Text that the program parses is a sequence of one-character strings. *)
(*  - A date is [y, m, d]; ToOrdinal is the proleptic Gregorian ordinal.   *)
(*  - Money is an integer number of cents.  Python computes in binary     *)
(*    floating point and rounds with round(x, 2); the model computes the   *)
(*    exact quotient and rounds it to the nearest cent, ties to even.  The *)
(*    two agree unless the exact quotient lies within floating-point error *)
(*    of a half cent.                                                      *)
(***************************************************************************)
EXTENDS Integers, Sequences, FiniteSets, TLC

VARIABLES
    pc,                    \* position in main()
    args,                  \* parsed command line: start_date, end_date, qif
    start_date, end_date,  \* the reporting window, once parsed
    assets,                \* asset summaries returned by fetch_all_assets
    idx,                   \* position of the for-loop over assets
    detail,                \* detail record of the asset being processed
    purchase_date, cost,   \* locals of compute_depreciation_from_detail
    schedule_detail,
    model_detail,
    life_months,
    end_of_life, total_life_days, depr_days,
    depr_amount,           \* value returned by compute_depreciation_from_detail
    fetch_log,             \* model/schedule requests issued for this asset
    computed,              \* per processed asset: tag and returned amount
    depreciation_entries,
    total_depreciation,
    csv,                   \* rows of depreciation_summary.csv
    qif,                   \* lines of the QIF file
    stdout                 \* messages printed (errors, summary, QIF notice)

vars == <<pc, args, start_date, end_date, assets, idx, detail, purchase_date,
          cost, schedule_detail, model_detail, life_months, end_of_life,
          total_life_days, depr_days, depr_amount, fetch_log, computed,
          depreciation_entries, total_depreciation, csv, qif, stdout>>

---------------------------------------------------------------------------
(* Bounds *)

\* Longest asset list returned by the list endpoint.
MaxAssets == 2

\* Largest month count for which the calculation is examined at every
\* purchase date and window reached.
MaxMonths == 24

---------------------------------------------------------------------------
(* JSON values and Python truthiness *)

JNull == [t |-> "null"]

JStr(s) == [t |-> "str", s |-> s]

JInt(n) == [t |-> "int", n |-> n]

JObj(f) == [t |-> "obj", f |-> f]

EmptyDict == JObj(<<>>)

\* dict.get(key): None when the key is missing
Get(o, key) == IF key \in DOMAIN o.f THEN o.f[key] ELSE JNull

\* dict.get(key, default)
GetDefault(o, key, default) == IF key \in DOMAIN o.f THEN o.f[key] ELSE default

\* bool(v) as used by "if not v"
Truthy(v) ==
    CASE v.t = "null" -> FALSE
      [] v.t = "str"  -> v.s # <<>>
      [] v.t = "int"  -> v.n # 0
      [] v.t = "obj"  -> DOMAIN v.f # {}

---------------------------------------------------------------------------
(* Text *)

DigitChars == <<"0", "1", "2", "3", "4", "5", "6", "7", "8", "9">>

IsDigit(c) == \E i \in 1..10 : DigitChars[i] = c

DigitVal(c) == (CHOOSE i \in 1..10 : DigitChars[i] = c) - 1

AllDigits(s) == \A i \in 1..Len(s) : IsDigit(s[i])

RECURSIVE ToInt(_)
\* int() of a run of decimal digits
ToInt(s) ==
    IF s = <<>> THEN 0
    ELSE 10 * ToInt(SubSeq(s, 1, Len(s) - 1)) + DigitVal(s[Len(s)])

RECURSIVE Pow10(_)
Pow10(k) == IF k = 0 THEN 1 ELSE 10 * Pow10(k - 1)

\* str.replace(',', '')
RemoveCommas(s) == SelectSeq(s, LAMBDA c : c # ",")

\* zero-padded decimal of width w, as %02d / %04d
RECURSIVE Pad(_, _)
Pad(n, w) == IF w = 0 THEN "" ELSE Pad(n \div 10, w - 1) \o ToString(n % 10)

---------------------------------------------------------------------------
(* Calendar arithmetic: datetime.date, timedelta, relativedelta *)

NoDate == [y |-> 0, m |-> 0, d |-> 0]

Date(yy, mm, dd) == [y |-> yy, m |-> mm, d |-> dd]

IsLeap(y) == (y % 4 = 0) /\ ((y % 100 # 0) \/ (y % 400 = 0))

DaysInMonth(y, m) ==
    CASE m \in {1, 3, 5, 7, 8, 10, 12} -> 31
      [] m \in {4, 6, 9, 11} -> 30
      [] OTHER -> IF IsLeap(y) THEN 29 ELSE 28

RECURSIVE DaysBeforeMonth(_, _)
DaysBeforeMonth(y, m) ==
    IF m = 1 THEN 0 ELSE DaysBeforeMonth(y, m - 1) + DaysInMonth(y, m - 1)

DaysBeforeYear(y) ==
    (y - 1) * 365 + ((y - 1) \div 4) - ((y - 1) \div 100) + ((y - 1) \div 400)

\* date.toordinal(): 0001-01-01 is day 1
ToOrdinal(dt) == DaysBeforeYear(dt.y) + DaysBeforeMonth(dt.y, dt.m) + dt.d

IsValidDate(y, m, d) ==
    /\ y \in 1..9999
    /\ m \in 1..12
    /\ d \in 1..DaysInMonth(y, m)

\* Variant of AddMonths that counts a year as 12 months of 30 days and so
\* lands one month short across a year boundary.
AddMonths_NoCarry(dt, n) ==
    LET total == dt.y * 12 + (dt.m - 1) + n
        yy    == total \div 12
        mm    == IF total % 12 = 0 THEN 12 ELSE total % 12
        last  == DaysInMonth(yy, mm)
    IN  Date(yy, mm, IF dt.d > last THEN last ELSE dt.d)

\* date + relativedelta(months=n): roll month and year, clamp the day
AddMonths(dt, n) ==
    LET total == dt.y * 12 + (dt.m - 1) + n
        yy    == total \div 12
        mm    == (total % 12) + 1
        last  == DaysInMonth(yy, mm)
    IN  Date(yy, mm, IF dt.d > last THEN last ELSE dt.d)

\* date - timedelta(days=1)
MinusOneDay(dt) ==
    IF dt.d > 1 THEN Date(dt.y, dt.m, dt.d - 1)
    ELSE IF dt.m > 1 THEN Date(dt.y, dt.m - 1, DaysInMonth(dt.y, dt.m - 1))
    ELSE Date(dt.y - 1, 12, 31)

\* (a - b).days
DaysBetween(a, b) == ToOrdinal(a) - ToOrdinal(b)

DateLess(a, b) == ToOrdinal(a) < ToOrdinal(b)

MaxDate(a, b) == IF DateLess(a, b) THEN b ELSE a

MinDate(a, b) == IF DateLess(b, a) THEN b ELSE a

\* A YYYY-MM-DD text read as a calendar date; ok is FALSE when the text is
\* no such date (the library then raises).
ParseIsoDate(s) ==
    IF /\ Len(s) = 10
       /\ s[5] = "-" /\ s[8] = "-"
       /\ AllDigits(SubSeq(s, 1, 4))
       /\ AllDigits(SubSeq(s, 6, 7))
       /\ AllDigits(SubSeq(s, 9, 10))
       /\ IsValidDate(ToInt(SubSeq(s, 1, 4)), ToInt(SubSeq(s, 6, 7)),
                      ToInt(SubSeq(s, 9, 10)))
    THEN [ok |-> TRUE,
          date |-> Date(ToInt(SubSeq(s, 1, 4)), ToInt(SubSeq(s, 6, 7)),
                        ToInt(SubSeq(s, 9, 10)))]
    ELSE [ok |-> FALSE, date |-> NoDate]

\* dateparser.parse(purchase_date_str).date(), for ISO dates and for text
\* holding no date
ParsePurchaseDate(s) == ParseIsoDate(s)

\* datetime.strptime(text, '%Y-%m-%d').date()
Strptime(s) == ParseIsoDate(s)

\* qif_date.strftime('%m/%d/%Y')
Strftime(dt) == Pad(dt.m, 2) \o "/" \o Pad(dt.d, 2) \o "/" \o Pad(dt.y, 4)

---------------------------------------------------------------------------
(* Money *)

\* float(cost_str) for plain decimals "ddd", "ddd.dd", ".d": the value is
\* n / 10^e.  Any other text raises ValueError (ok = FALSE).
ParseFloat(s) ==
    LET dots == {i \in 1..Len(s) : s[i] = "."}
        p    == IF dots = {} THEN Len(s) + 1 ELSE CHOOSE i \in dots : TRUE
        ip   == SubSeq(s, 1, p - 1)
        fp   == SubSeq(s, p + 1, Len(s))
    IN  IF /\ Cardinality(dots) <= 1
           /\ AllDigits(ip) /\ AllDigits(fp)
           /\ Len(ip) + Len(fp) >= 1
        THEN [ok |-> TRUE, n |-> ToInt(ip \o fp), e |-> Len(fp)]
        ELSE [ok |-> FALSE, n |-> 0, e |-> 0]

\* nearest integer to num / den, ties to even (num >= 0, den > 0)
RoundHalfEven(num, den) ==
    LET q == num \div den
        r == num % den
    IN  IF 2 * r < den THEN q
        ELSE IF 2 * r > den THEN q + 1
        ELSE IF q % 2 = 0 THEN q ELSE q + 1

\* round(cost / total_life_days * depr_days, 2), in cents
RoundedAmount(c, total, days) ==
    IF c.e <= 2
    THEN RoundHalfEven(c.n * Pow10(2 - c.e) * days, total)
    ELSE RoundHalfEven(c.n * days, Pow10(c.e - 2) * total)

\* f"{amount:.2f}" for an amount of whole cents
Fmt2(cents) == ToString(cents \div 100) \o "." \o Pad(cents % 100, 2)

---------------------------------------------------------------------------
(* parse_months_field: the first maximal run of decimal digits *)

FirstDigit(s) ==
    IF \E i \in 1..Len(s) : IsDigit(s[i])
    THEN CHOOSE i \in 1..Len(s) :
            IsDigit(s[i]) /\ \A j \in 1..(i - 1) : ~IsDigit(s[j])
    ELSE 0

RunEnd(s, i) ==
    CHOOSE j \in i..Len(s) :
        /\ AllDigits(SubSeq(s, i, j))
        /\ (j = Len(s) \/ ~IsDigit(s[j + 1]))

parse_months_field(months_str) ==
    LET i == FirstDigit(months_str) IN
    IF i = 0 THEN [ok |-> FALSE, months |-> 0]
    ELSE [ok |-> TRUE,
          months |-> ToInt(SubSeq(months_str, i, RunEnd(months_str, i)))]

---------------------------------------------------------------------------
(* compute_depreciation_from_detail, by segment *)

\* Variant of ComputeBegin that chooses the branch before it looks at the
\* purchase cost, so that an asset without usable cost still has its schedule
\* resolved.
ComputeBegin_ResolvesFirst(d) ==
    LET pd_field   == Get(d, "purchase_date")
        ret0       == [next |-> "ret", purchase_date |-> NoDate,
                       cost |-> [n |-> 0, e |-> 0]]
    IN
    IF ~Truthy(pd_field) \/ Get(pd_field, "date").t = "null" THEN ret0
    ELSE
    LET pdate == ParsePurchaseDate(Get(pd_field, "date").s) IN
    IF ~pdate.ok THEN ret0
    ELSE
    LET raw_cost   == Get(d, "purchase_cost")
        c          == IF Truthy(raw_cost)
                      THEN ParseFloat(RemoveCommas(raw_cost.s))
                      ELSE [ok |-> FALSE, n |-> 0, e |-> 0]
        depr_obj   == Get(d, "depreciation")
        model_info == GetDefault(d, "model", EmptyDict)
        go(n)      == [next |-> n, purchase_date |-> pdate.date,
                       cost |-> [n |-> c.n, e |-> c.e]]
    IN
    IF Truthy(depr_obj) /\ Get(depr_obj, "id").t # "null" THEN go("own")
    ELSE IF model_info.t # "obj" THEN go("raise")
    ELSE IF Get(model_info, "id").t = "null" THEN go("ret")
    ELSE go("model")

\* Steps 1-3 up to the first request: purchase date, cost, and the choice of
\* branch.  next is "ret" (return 0.0), "own" (the asset's own schedule),
\* "model" (fallback to the model) or "raise" (AttributeError on None.get).
ComputeBegin(d) ==
    LET pd_field   == Get(d, "purchase_date")
        ret0       == [next |-> "ret", purchase_date |-> NoDate,
                       cost |-> [n |-> 0, e |-> 0]]
    IN
    IF ~Truthy(pd_field) \/ Get(pd_field, "date").t = "null" THEN ret0
    ELSE
    LET pdate == ParsePurchaseDate(Get(pd_field, "date").s) IN
    IF ~pdate.ok THEN ret0
    ELSE
    LET raw_cost == Get(d, "purchase_cost")
        ret1     == [ret0 EXCEPT !.purchase_date = pdate.date]
    IN
    IF ~Truthy(raw_cost) THEN ret1
    ELSE
    LET c == ParseFloat(RemoveCommas(raw_cost.s)) IN
    IF ~c.ok THEN ret1
    ELSE
    LET depr_obj   == Get(d, "depreciation")
        model_info == GetDefault(d, "model", EmptyDict)
        go(n)      == [next |-> n, purchase_date |-> pdate.date,
                       cost |-> [n |-> c.n, e |-> c.e]]
    IN
    IF Truthy(depr_obj) /\ Get(depr_obj, "id").t # "null" THEN go("own")
    ELSE IF model_info.t # "obj" THEN go("raise")
    ELSE IF Get(model_info, "id").t = "null" THEN go("ret")
    ELSE go("model")

\* Own-schedule branch after the schedule arrived: months field and parse.
OwnScheduleMonths(sd) ==
    LET months_field == Get(sd, "months") IN
    IF ~Truthy(months_field) THEN [ok |-> FALSE, months |-> 0]
    ELSE parse_months_field(months_field.s)

\* Fallback branch after the model arrived: the model's schedule reference.
ModelScheduleRef(md) ==
    LET model_depr_obj == Get(md, "depreciation") IN
    IF ~Truthy(model_depr_obj) \/ Get(model_depr_obj, "id").t = "null"
    THEN [ok |-> FALSE, id |-> 0]
    ELSE [ok |-> TRUE, id |-> Get(model_depr_obj, "id").n]

\* Variant of ModelScheduleMonths that reads the schedule's 'name' key.
ModelScheduleMonths_WrongKey(sd) ==
    LET months_field == Get(sd, "name") IN
    IF ~Truthy(months_field) THEN [ok |-> FALSE, months |-> 0]
    ELSE parse_months_field(months_field.s)

\* Fallback branch after the model's schedule arrived.
ModelScheduleMonths(sd) ==
    LET months_field == Get(sd, "months") IN
    IF ~Truthy(months_field) THEN [ok |-> FALSE, months |-> 0]
    ELSE parse_months_field(months_field.s)

\* Variant of EndOfLife that forgets the day subtracted to make the interval
\* inclusive.
EndOfLife_Exclusive(pdate, months) == AddMonths(pdate, months)

\* date + months of useful life - 1 day
EndOfLife(pdate, months) == MinusOneDay(AddMonths(pdate, months))

\* Variant of Depreciation without the overlap test of step 6.
Depreciation_NoOverlapTest(pdate, c, months, sdate, edate) ==
    LET eol          == EndOfLife(pdate, months)
        skip         == [amount |-> 0, end_of_life |-> eol,
                         total_life_days |-> 0, depr_days |-> 0,
                         raised |-> FALSE]
        period_start == MaxDate(pdate, sdate)
        period_end   == MinDate(eol, edate)
        total        == DaysBetween(eol, pdate) + 1
        days         == DaysBetween(period_end, period_start) + 1
    IN
    IF DateLess(eol, sdate) THEN skip
    ELSE IF total = 0 THEN [skip EXCEPT !.raised = TRUE]
    ELSE [amount |-> RoundedAmount(c, total, days), end_of_life |-> eol,
          total_life_days |-> total, depr_days |-> days, raised |-> FALSE]

\* Variant of Depreciation whose first test skips an asset whose useful life
\* ends on the window's first day (<= instead of <).
Depreciation_SkipsLastDay(pdate, c, months, sdate, edate) ==
    LET eol          == EndOfLife(pdate, months)
        skip         == [amount |-> 0, end_of_life |-> eol,
                         total_life_days |-> 0, depr_days |-> 0,
                         raised |-> FALSE]
        period_start == MaxDate(pdate, sdate)
        period_end   == MinDate(eol, edate)
        total        == DaysBetween(eol, pdate) + 1
        days         == DaysBetween(period_end, period_start) + 1
    IN
    IF ~DateLess(sdate, eol) THEN skip
    ELSE IF DateLess(period_end, period_start) THEN skip
    ELSE IF total = 0 THEN [skip EXCEPT !.raised = TRUE]
    ELSE [amount |-> RoundedAmount(c, total, days), end_of_life |-> eol,
          total_life_days |-> total, depr_days |-> days, raised |-> FALSE]

\* Variant of Depreciation that computes the daily rate (step 7) before the
\* overlap test (step 6).
Depreciation_DividesBeforeOverlapTest(pdate, c, months, sdate, edate) ==
    LET eol          == EndOfLife(pdate, months)
        skip         == [amount |-> 0, end_of_life |-> eol,
                         total_life_days |-> 0, depr_days |-> 0,
                         raised |-> FALSE]
        period_start == MaxDate(pdate, sdate)
        period_end   == MinDate(eol, edate)
        total        == DaysBetween(eol, pdate) + 1
        days         == DaysBetween(period_end, period_start) + 1
    IN
    IF DateLess(eol, sdate) THEN skip
    ELSE IF total = 0 THEN [skip EXCEPT !.raised = TRUE]
    ELSE IF DateLess(period_end, period_start)
    THEN [skip EXCEPT !.total_life_days = total]
    ELSE [amount |-> RoundedAmount(c, total, days), end_of_life |-> eol,
          total_life_days |-> total, depr_days |-> days, raised |-> FALSE]

\* Steps 4-8.  amount is in cents; total_life_days and depr_days are 0 when
\* the function returns before computing them; raised is TRUE when the
\* division would be by zero.
Depreciation(pdate, c, months, sdate, edate) ==
    LET eol          == EndOfLife(pdate, months)
        skip         == [amount |-> 0, end_of_life |-> eol,
                         total_life_days |-> 0, depr_days |-> 0,
                         raised |-> FALSE]
        period_start == MaxDate(pdate, sdate)
        period_end   == MinDate(eol, edate)
        total        == DaysBetween(eol, pdate) + 1
        days         == DaysBetween(period_end, period_start) + 1
    IN
    IF DateLess(eol, sdate) THEN skip
    ELSE IF DateLess(period_end, period_start) THEN skip
    ELSE IF total = 0 THEN [skip EXCEPT !.raised = TRUE]
    ELSE [amount |-> RoundedAmount(c, total, days), end_of_life |-> eol,
          total_life_days |-> total, depr_days |-> days, raised |-> FALSE]

---------------------------------------------------------------------------
(* Inputs: command lines, the remote service's records *)

D_2020_01_01 == <<"2", "0", "2", "0", "-", "0", "1", "-", "0", "1">>

D_2020_12_31 == <<"2", "0", "2", "0", "-", "1", "2", "-", "3", "1">>

D_2021_06_01 == <<"2", "0", "2", "1", "-", "0", "6", "-", "0", "1">>

D_2021_12_31 == <<"2", "0", "2", "1", "-", "1", "2", "-", "3", "1">>

D_2017_01_02 == <<"2", "0", "1", "7", "-", "0", "1", "-", "0", "2">>

D_2020_01_02 == <<"2", "0", "2", "0", "-", "0", "1", "-", "0", "2">>

D_2020_06_02 == <<"2", "0", "2", "0", "-", "0", "6", "-", "0", "2">>

D_2019_08_31 == <<"2", "0", "1", "9", "-", "0", "8", "-", "3", "1">>

T_NotADate == <<"n", "/", "a">>

T_1200 == <<"1", "2", "0", "0", ".", "0", "0">>

T_3650 == <<"3", ",", "6", "5", "0", ".", "0", "0">>

T_abc == <<"a", "b", "c">>

T_36months == <<"3", "6", " ", "m", "o", "n", "t", "h", "s">>

T_12 == <<"1", "2">>

T_NA == <<"N", "/", "A">>

T_0months == <<"0", " ", "m", "o", "n", "t", "h", "s">>

T_6Month == <<"6", " ", "M", "o", "n", "t", "h">>

\* --start-date, --end-date, --qif
CommandLines ==
    {[start_date |-> D_2020_01_01, end_date |-> D_2020_12_31, qif |-> q] :
        q \in BOOLEAN}
    \cup {[start_date |-> D_2021_06_01, end_date |-> D_2021_12_31, qif |-> TRUE],
          [start_date |-> D_2020_12_31, end_date |-> D_2020_01_01, qif |-> TRUE],
          [start_date |-> T_NotADate, end_date |-> D_2020_12_31, qif |-> TRUE]}

\* GET /api/v1/depreciations/{id}
ScheduleIds == 1..7

ScheduleDB(id) ==
    CASE id = 1 -> JObj([months |-> JStr(T_36months)])
      [] id = 2 -> JObj([months |-> JStr(T_12)])
      [] id = 3 -> JObj([months |-> JStr(T_NA)])
      [] id = 4 -> JObj([months |-> JStr(<<>>)])
      [] id = 5 -> JObj([name |-> JStr(T_NA)])
      [] id = 6 -> JObj([months |-> JStr(T_0months)])
      [] id = 7 -> JObj([months |-> JStr(T_6Month)])

\* GET /api/v1/models/{id}: model 40+s references schedule s
ModelIds == 41..49

ModelDB(id) ==
    CASE id \in 41..47 -> JObj([depreciation |-> JObj([id |-> JInt(id - 40)])])
      [] id = 48 -> JObj([depreciation |-> JNull])
      [] id = 49 -> JObj([depreciation |-> JObj([id |-> JNull])])

Absent == [t |-> "absent"]

\* an asset detail record; the model key may be missing altogether
MkDetail(pd, c, dep, mod) ==
    IF mod = Absent
    THEN JObj([purchase_date |-> pd, purchase_cost |-> c, depreciation |-> dep])
    ELSE JObj([purchase_date |-> pd, purchase_cost |-> c, depreciation |-> dep,
               model |-> mod])

DateField(s) == JObj([date |-> JStr(s)])

Ref(id) == JObj([id |-> JInt(id)])

PurchaseInvalid == {JNull, JObj([date |-> JNull]), DateField(T_NotADate)}

CostInvalid == {JNull, JStr(<<>>), JStr(T_abc)}

\* purchase date and cost of the assets that have both
Purchases ==
    {<<DateField(D_2020_01_01), JStr(T_1200)>>,
     <<DateField(D_2021_06_01), JStr(T_3650)>>,
     <<DateField(D_2017_01_02), JStr(T_1200)>>,
     <<DateField(D_2020_01_02), JStr(T_1200)>>,
     <<DateField(D_2020_06_02), JStr(T_3650)>>,
     <<DateField(D_2019_08_31), JStr(T_3650)>>}

\* GET /api/v1/hardware/{id}: the records the service may return
Details ==
    {MkDetail(pd, c, Ref(1), Ref(41)) :
        pd \in PurchaseInvalid, c \in CostInvalid \cup {JStr(T_1200)}}
    \cup {MkDetail(p[1], c, Ref(1), Ref(41)) : p \in Purchases, c \in CostInvalid}
    \cup {MkDetail(p[1], p[2], Ref(s), mod) :
            p \in Purchases, s \in ScheduleIds, mod \in {Ref(41)}}
    \cup {MkDetail(p[1], p[2], JNull, mod) :
            p \in Purchases,
            mod \in {Absent, JNull, JObj([id |-> JNull])}
                    \cup {Ref(m) : m \in ModelIds}}
    \cup {MkDetail(p[1], p[2], JObj([id |-> JNull]), mod) :
            p \in Purchases, mod \in {Absent, Ref(41)}}

---------------------------------------------------------------------------
(* main(): state after argument parsing *)

NoCost == [n |-> 0, e |-> 0]

Init ==
    /\ pc = "parse_dates"
    /\ args \in CommandLines
    /\ start_date = NoDate
    /\ end_date = NoDate
    /\ assets = <<>>
    /\ idx = 1
    /\ detail = JNull
    /\ purchase_date = NoDate
    /\ cost = NoCost
    /\ schedule_detail = JNull
    /\ model_detail = JNull
    /\ life_months = 0
    /\ end_of_life = NoDate
    /\ total_life_days = 0
    /\ depr_days = 0
    /\ depr_amount = 0
    /\ fetch_log = <<>>
    /\ computed = <<>>
    /\ depreciation_entries = <<>>
    /\ total_depreciation = 0
    /\ csv = <<>>
    /\ qif = <<>>
    /\ stdout = <<>>

window_vars == <<args, start_date, end_date>>

compute_vars == <<detail, purchase_date, cost, schedule_detail, model_detail,
                  life_months, end_of_life, total_life_days, depr_days,
                  depr_amount, fetch_log>>

result_vars == <<computed, depreciation_entries, total_depreciation>>

output_vars == <<csv, qif>>

\* print("[ERROR] ...") followed by sys.exit(1)
Fatal(msg) ==
    /\ stdout' = Append(stdout, msg)
    /\ pc' = "exit"

\* the reporting window is parsed, or the run ends on a malformed date
ParseDates ==
    /\ pc = "parse_dates"
    /\ LET s == Strptime(args.start_date)
           e == Strptime(args.end_date)
       IN  IF s.ok /\ e.ok
           THEN /\ start_date' = s.date
                /\ end_date' = e.date
                /\ pc' = "fetch_assets"
                /\ UNCHANGED stdout
           ELSE /\ Fatal("[ERROR] Failed to parse dates")
                /\ UNCHANGED <<start_date, end_date>>
    /\ UNCHANGED <<args, assets, idx, compute_vars, result_vars, output_vars>>

\* asset summaries of the list endpoint: position k has id k and tag "Ak",
\* or carries no id
Summary(k, with_id) ==
    IF with_id
    THEN JObj([id |-> JInt(k), asset_tag |-> [t |-> "text", x |-> "A" \o ToString(k)]])
    ELSE JObj([name |-> [t |-> "text", x |-> "N" \o ToString(k)]])

\* asset_summary.get('asset_tag') or asset_summary.get('name') or 'Unknown'
TagOf(summary) ==
    IF "asset_tag" \in DOMAIN summary.f /\ summary.f.asset_tag.x # ""
    THEN summary.f.asset_tag.x
    ELSE IF "name" \in DOMAIN summary.f /\ summary.f.name.x # ""
    THEN summary.f.name.x
    ELSE "Unknown"

\* fetch_all_assets returns every page's rows
FetchAllAssets ==
    /\ pc = "fetch_assets"
    /\ \E n \in 0..MaxAssets : \E ids \in [1..n -> BOOLEAN] :
          assets' = [k \in 1..n |-> Summary(k, ids[k])]
    /\ pc' = "loop"
    /\ UNCHANGED <<window_vars, idx, compute_vars, result_vars, output_vars, stdout>>

\* a page request times out or fails
FetchAllAssetsFail ==
    /\ pc = "fetch_assets"
    /\ Fatal("[ERROR] Failed to fetch assets")
    /\ UNCHANGED <<window_vars, assets, idx, compute_vars, result_vars, output_vars>>

\* for-loop: a summary without id is skipped
LoopSkip ==
    /\ pc = "loop"
    /\ idx <= Len(assets)
    /\ Get(assets[idx], "id").t = "null"
    /\ idx' = idx + 1
    /\ UNCHANGED <<pc, window_vars, assets, compute_vars, result_vars,
                   output_vars, stdout>>

\* fetch_asset_detail succeeds
FetchAssetDetail ==
    /\ pc = "loop"
    /\ idx <= Len(assets)
    /\ Get(assets[idx], "id").t # "null"
    /\ \E d \in Details : detail' = d
    /\ pc' = "compute"
    /\ UNCHANGED <<window_vars, assets, idx, purchase_date, cost, schedule_detail,
                   model_detail, life_months, end_of_life, total_life_days,
                   depr_days, depr_amount, fetch_log, result_vars, output_vars,
                   stdout>>

FetchAssetDetailFail ==
    /\ pc = "loop"
    /\ idx <= Len(assets)
    /\ Get(assets[idx], "id").t # "null"
    /\ Fatal("[ERROR] Failed to fetch details for Asset")
    /\ UNCHANGED <<window_vars, assets, idx, compute_vars, result_vars, output_vars>>

\* compute_depreciation_from_detail up to its first request
ComputeStart ==
    /\ pc = "compute"
    /\ LET b == ComputeBegin(detail) IN
         /\ purchase_date' = b.purchase_date
         /\ cost' = b.cost
         /\ pc' = CASE b.next = "ret"   -> "ret"
                    [] b.next = "own"   -> "fetch_schedule_own"
                    [] b.next = "model" -> "fetch_model"
                    [] b.next = "raise" -> "crash"
         /\ stdout' = IF b.next = "raise"
                      THEN Append(stdout, "AttributeError: 'NoneType' object has no attribute 'get'")
                      ELSE stdout
    /\ depr_amount' = 0
    /\ UNCHANGED <<window_vars, assets, idx, detail, schedule_detail, model_detail,
                   life_months, end_of_life, total_life_days, depr_days,
                   fetch_log, result_vars, output_vars>>

Request(kind, id) == [kind |-> kind, id |-> id]

\* Variant of FetchScheduleOwn that consults the model when the asset's own
\* schedule yields no month count.
FetchScheduleOwn_FallsBack ==
    /\ pc = "fetch_schedule_own"
    /\ LET schedule_id == Get(Get(detail, "depreciation"), "id").n
           sd          == ScheduleDB(schedule_id)
           r           == OwnScheduleMonths(sd)
       IN  /\ fetch_log' = Append(fetch_log, Request("schedule", schedule_id))
           /\ schedule_detail' = sd
           /\ life_months' = r.months
           /\ pc' = IF r.ok THEN "calc"
                    ELSE IF Get(Get(detail, "model"), "id").t = "int"
                    THEN "fetch_model" ELSE "ret"
    /\ UNCHANGED <<window_vars, assets, idx, detail, purchase_date, cost,
                   model_detail, end_of_life, total_life_days, depr_days,
                   depr_amount, result_vars, output_vars, stdout>>

\* the asset's own schedule arrives; months are read and parsed
FetchScheduleOwn ==
    /\ pc = "fetch_schedule_own"
    /\ LET schedule_id == Get(Get(detail, "depreciation"), "id").n
           sd          == ScheduleDB(schedule_id)
           r           == OwnScheduleMonths(sd)
       IN  /\ fetch_log' = Append(fetch_log, Request("schedule", schedule_id))
           /\ schedule_detail' = sd
           /\ life_months' = r.months
           /\ pc' = IF r.ok THEN "calc" ELSE "ret"
    /\ UNCHANGED <<window_vars, assets, idx, detail, purchase_date, cost,
                   model_detail, end_of_life, total_life_days, depr_days,
                   depr_amount, result_vars, output_vars, stdout>>

\* the model arrives; its schedule reference is read
FetchModel ==
    /\ pc = "fetch_model"
    /\ LET model_id == Get(Get(detail, "model"), "id").n
           md       == ModelDB(model_id)
           r        == ModelScheduleRef(md)
       IN  /\ fetch_log' = Append(fetch_log, Request("model", model_id))
           /\ model_detail' = md
           /\ pc' = IF r.ok THEN "fetch_schedule_model" ELSE "ret"
    /\ UNCHANGED <<window_vars, assets, idx, detail, purchase_date, cost,
                   schedule_detail, life_months, end_of_life, total_life_days,
                   depr_days, depr_amount, result_vars, output_vars, stdout>>

\* the model's schedule arrives; months are read and parsed
FetchScheduleModel ==
    /\ pc = "fetch_schedule_model"
    /\ LET schedule_id == ModelScheduleRef(model_detail).id
           sd          == ScheduleDB(schedule_id)
           r           == ModelScheduleMonths(sd)
       IN  /\ fetch_log' = Append(fetch_log, Request("schedule", schedule_id))
           /\ schedule_detail' = sd
           /\ life_months' = r.months
           /\ pc' = IF r.ok THEN "calc" ELSE "ret"
    /\ UNCHANGED <<window_vars, assets, idx, detail, purchase_date, cost,
                   model_detail, end_of_life, total_life_days, depr_days,
                   depr_amount, result_vars, output_vars, stdout>>

\* Variant of FetchFail with a partial-results mode: the entries gathered so
\* far are written before the run ends.
FetchFail_WritesPartial ==
    /\ \/ /\ pc \in {"fetch_schedule_own", "fetch_schedule_model"}
          /\ Fatal("[ERROR] Failed to fetch depreciation schedule")
       \/ /\ pc = "fetch_model"
          /\ Fatal("[ERROR] Failed to fetch model details for Model")
    /\ csv' = <<(<<"Asset Tag", "Depreciation Amount">>)>>
              \o [i \in 1..Len(depreciation_entries) |->
                    <<depreciation_entries[i].asset_tag,
                      Fmt2(depreciation_entries[i].depreciation)>>]
    /\ UNCHANGED <<window_vars, assets, idx, compute_vars, result_vars, qif>>

\* a model or schedule request times out or fails
FetchFail ==
    /\ \/ /\ pc \in {"fetch_schedule_own", "fetch_schedule_model"}
          /\ Fatal("[ERROR] Failed to fetch depreciation schedule")
       \/ /\ pc = "fetch_model"
          /\ Fatal("[ERROR] Failed to fetch model details for Model")
    /\ UNCHANGED <<window_vars, assets, idx, compute_vars, result_vars, output_vars>>

\* steps 4-8 of compute_depreciation_from_detail
Calculate ==
    /\ pc = "calc"
    /\ LET r == Depreciation(purchase_date, cost, life_months, start_date, end_date)
       IN  /\ end_of_life' = r.end_of_life
           /\ total_life_days' = r.total_life_days
           /\ depr_days' = r.depr_days
           /\ depr_amount' = r.amount
           /\ pc' = IF r.raised THEN "crash" ELSE "ret"
           /\ stdout' = IF r.raised
                        THEN Append(stdout, "ZeroDivisionError: float division by zero")
                        ELSE stdout
    /\ UNCHANGED <<window_vars, assets, idx, detail, purchase_date, cost,
                   schedule_detail, model_detail, life_months, fetch_log,
                   result_vars, output_vars>>

Entry(tag, amount) == [asset_tag |-> tag, depreciation |-> amount]

\* Variant of Accumulate that tests depr_amount >= 0.
Accumulate_KeepsZero ==
    /\ pc = "ret"
    /\ LET asset_tag == TagOf(assets[idx]) IN
         /\ computed' = Append(computed, Entry(asset_tag, depr_amount))
         /\ IF depr_amount >= 0
            THEN /\ total_depreciation' = total_depreciation + depr_amount
                 /\ depreciation_entries' =
                        Append(depreciation_entries, Entry(asset_tag, depr_amount))
            ELSE UNCHANGED <<total_depreciation, depreciation_entries>>
    /\ idx' = idx + 1
    /\ pc' = "loop"
    /\ detail' = JNull
    /\ purchase_date' = NoDate
    /\ cost' = NoCost
    /\ schedule_detail' = JNull
    /\ model_detail' = JNull
    /\ life_months' = 0
    /\ end_of_life' = NoDate
    /\ total_life_days' = 0
    /\ depr_days' = 0
    /\ depr_amount' = 0
    /\ fetch_log' = <<>>
    /\ UNCHANGED <<window_vars, assets, output_vars, stdout>>

\* back in main(): the amount is accumulated and the loop advances
Accumulate ==
    /\ pc = "ret"
    /\ LET asset_tag == TagOf(assets[idx]) IN
         /\ computed' = Append(computed, Entry(asset_tag, depr_amount))
         /\ IF depr_amount > 0
            THEN /\ total_depreciation' = total_depreciation + depr_amount
                 /\ depreciation_entries' =
                        Append(depreciation_entries, Entry(asset_tag, depr_amount))
            ELSE UNCHANGED <<total_depreciation, depreciation_entries>>
    /\ idx' = idx + 1
    /\ pc' = "loop"
    /\ detail' = JNull
    /\ purchase_date' = NoDate
    /\ cost' = NoCost
    /\ schedule_detail' = JNull
    /\ model_detail' = JNull
    /\ life_months' = 0
    /\ end_of_life' = NoDate
    /\ total_life_days' = 0
    /\ depr_days' = 0
    /\ depr_amount' = 0
    /\ fetch_log' = <<>>
    /\ UNCHANGED <<window_vars, assets, output_vars, stdout>>

\* the loop is over
LoopEnd ==
    /\ pc = "loop"
    /\ idx > Len(assets)
    /\ pc' = "write_csv"
    /\ UNCHANGED <<window_vars, assets, idx, compute_vars, result_vars,
                   output_vars, stdout>>

---------------------------------------------------------------------------
(* Export *)

CsvRow(entry) == <<entry.asset_tag, Fmt2(entry.depreciation)>>

\* header and one row per entry
CsvRows(entries) ==
    <<(<<"Asset Tag", "Depreciation Amount">>)>>
    \o [i \in 1..Len(entries) |-> CsvRow(entries[i])]

\* what is on disk when a write fails: not the whole file
Prefixes(s) == {SubSeq(s, 1, k) : k \in 0..(Len(s) - 1)}

\* the summary is written and the total printed
WriteCsv ==
    /\ pc = "write_csv"
    /\ csv' = CsvRows(depreciation_entries)
    /\ stdout' = Append(stdout, "Depreciation summary written. Total depreciation: "
                                \o Fmt2(total_depreciation) \o " EUR")
    /\ pc' = "qif"
    /\ UNCHANGED <<window_vars, assets, idx, compute_vars, result_vars, qif>>

\* OSError on open or on a write: only some rows may be on disk
WriteCsvFail ==
    /\ pc = "write_csv"
    /\ csv' \in Prefixes(CsvRows(depreciation_entries))
    /\ Fatal("[ERROR] Failed to write CSV file")
    /\ UNCHANGED <<window_vars, assets, idx, compute_vars, result_vars, qif>>

\* Variant of QifTransaction whose second split repeats the first one's sign.
QifTransaction_SameSign(entry, expense_account, contra_account, qif_date) ==
    <<"D" \o Strftime(qif_date),
      "T0.00",
      "PDepreciation: " \o entry.asset_tag,
      "S" \o expense_account,
      "$" \o Fmt2(entry.depreciation),
      "S" \o contra_account,
      "$" \o Fmt2(entry.depreciation),
      "^">>

\* the eight lines generate_qif writes for one entry
QifTransaction(entry, expense_account, contra_account, qif_date) ==
    <<"D" \o Strftime(qif_date),
      "T0.00",
      "PDepreciation: " \o entry.asset_tag,
      "S" \o expense_account,
      "$" \o Fmt2(entry.depreciation),
      "S" \o contra_account,
      "$-" \o Fmt2(entry.depreciation),
      "^">>

RECURSIVE QifBody(_, _, _, _)
QifBody(entries, expense_account, contra_account, qif_date) ==
    IF entries = <<>> THEN <<>>
    ELSE QifTransaction(Head(entries), expense_account, contra_account, qif_date)
         \o QifBody(Tail(entries), expense_account, contra_account, qif_date)

\* the file generate_qif writes
QifLines(entries, expense_account, contra_account, qif_date) ==
    <<"!Type:Bank">> \o QifBody(entries, expense_account, contra_account, qif_date)

ExpenseAccount == "4820"

ContraAccount == "0409"

\* generate_qif, called with the entries and the window's end date
GenerateQif ==
    /\ pc = "qif"
    /\ args.qif
    /\ qif' = QifLines(depreciation_entries, ExpenseAccount, ContraAccount, end_date)
    /\ stdout' = Append(stdout, "QIF file generated")
    /\ pc' = "done"
    /\ UNCHANGED <<window_vars, assets, idx, compute_vars, result_vars, csv>>

\* OSError in generate_qif: only some lines may be on disk
GenerateQifFail ==
    /\ pc = "qif"
    /\ args.qif
    /\ qif' \in Prefixes(QifLines(depreciation_entries, ExpenseAccount,
                                  ContraAccount, end_date))
    /\ Fatal("[ERROR] Failed to write QIF file")
    /\ UNCHANGED <<window_vars, assets, idx, compute_vars, result_vars, csv>>

\* --qif not given
SkipQif ==
    /\ pc = "qif"
    /\ ~args.qif
    /\ pc' = "done"
    /\ UNCHANGED <<window_vars, assets, idx, compute_vars, result_vars,
                   output_vars, stdout>>

Next ==
    \/ ParseDates
    \/ FetchAllAssets
    \/ FetchAllAssetsFail
    \/ LoopSkip
    \/ FetchAssetDetail
    \/ FetchAssetDetailFail
    \/ ComputeStart
    \/ FetchScheduleOwn
    \/ FetchModel
    \/ FetchScheduleModel
    \/ FetchFail
    \/ Calculate
    \/ Accumulate
    \/ LoopEnd
    \/ WriteCsv
    \/ WriteCsvFail
    \/ GenerateQif
    \/ GenerateQifFail
    \/ SkipQif

Spec == Init /\ [][Next]_vars

---------------------------------------------------------------------------
(* Vocabulary of the properties *)

\* the asset being processed
Processing == detail # JNull

\* compute_depreciation_from_detail has returned to main()
Returned == pc = "ret"

NoPurchaseDate(d) ==
    \/ Get(d, "purchase_date").t = "null"
    \/ Get(Get(d, "purchase_date"), "date").t = "null"

NoPurchaseCost(d) ==
    \/ Get(d, "purchase_cost").t = "null"
    \/ Get(d, "purchase_cost").s = <<>>

HasOwnRef(d) ==
    /\ Get(d, "depreciation").t = "obj"
    /\ Get(Get(d, "depreciation"), "id").t = "int"

OwnRefId(d) == Get(Get(d, "depreciation"), "id").n

HasModelRef(d) ==
    /\ Get(d, "model").t = "obj"
    /\ Get(Get(d, "model"), "id").t = "int"

\* a schedule whose months field is missing or holds no digit
MonthsUnusable(sd) ==
    \/ Get(sd, "months").t = "null"
    \/ \A i \in 1..Len(Get(sd, "months").s) : ~IsDigit(Get(sd, "months").s[i])

\* the schedule of the asset being processed cannot be resolved
Unresolvable ==
    \/ ~HasOwnRef(detail) /\ ~HasModelRef(detail)
    \/ /\ model_detail # JNull
       /\ \/ Get(model_detail, "depreciation").t = "null"
          \/ Get(Get(model_detail, "depreciation"), "id").t = "null"
    \/ schedule_detail # JNull /\ MonthsUnusable(schedule_detail)

MissingInput ==
    /\ Processing
    /\ NoPurchaseDate(detail) \/ NoPurchaseCost(detail) \/ Unresolvable

---------------------------------------------------------------------------
(* C1 *)

\* C1: an asset with no purchase date, no purchase cost or no resolvable
\* schedule never makes the computation raise, and the amount returned for it
\* is 0.  Violated: a detail record whose model is null (and that has no own
\* schedule reference) raises AttributeError at model_info.get('id').
C1_MissingInputYieldsZero ==
    MissingInput => /\ pc # "crash"
                    /\ (Returned => depr_amount = 0)

---------------------------------------------------------------------------
(* C2 *)

\* the schedule the asset itself references yields no month count
OwnScheduleMalformed ==
    /\ Processing
    /\ HasOwnRef(detail)
    /\ MonthsUnusable(ScheduleDB(OwnRefId(detail)))

\* the asset's model references a schedule with a usable month count
ModelScheduleValid ==
    /\ HasModelRef(detail)
    /\ LET md == ModelDB(Get(Get(detail, "model"), "id").n) IN
         /\ Get(md, "depreciation").t = "obj"
         /\ Get(Get(md, "depreciation"), "id").t = "int"
         /\ ~MonthsUnusable(ScheduleDB(Get(Get(md, "depreciation"), "id").n))

\* C2: while an asset whose own schedule is malformed or empty is processed,
\* the model is never requested or read, the only request is the one for the
\* asset's own schedule, and the amount returned is 0.
C2_NoFallbackToModel ==
    OwnScheduleMalformed =>
        /\ pc \in {"compute", "fetch_schedule_own", "ret", "exit"}
        /\ model_detail = JNull
        /\ \A i \in 1..Len(fetch_log) :
              fetch_log[i] = Request("schedule", OwnRefId(detail))
        /\ Len(fetch_log) <= 1
        /\ (Returned => depr_amount = 0)

\* an asset with a malformed own schedule and a valid model schedule has
\* returned after its own schedule was fetched
C2_Witness ==
    /\ OwnScheduleMalformed
    /\ ModelScheduleValid
    /\ Returned
    /\ schedule_detail = ScheduleDB(OwnRefId(detail))
    /\ ~NoPurchaseDate(detail) /\ ~NoPurchaseCost(detail)

---------------------------------------------------------------------------
(* C3 *)

\* the month count of schedule sid, read as section 4.1 reads it
MonthsOfSchedule(sid) ==
    LET sd == ScheduleDB(sid) IN
    IF MonthsUnusable(sd) THEN [ok |-> FALSE, months |-> 0]
    ELSE LET str == Get(sd, "months").s
             i   == CHOOSE k \in 1..Len(str) :
                        IsDigit(str[k]) /\ \A j \in 1..(k - 1) : ~IsDigit(str[j])
             j   == CHOOSE k \in i..Len(str) :
                        /\ \A l \in i..k : IsDigit(str[l])
                        /\ (k = Len(str) \/ ~IsDigit(str[k + 1]))
         IN  [ok |-> TRUE, months |-> ToInt(SubSeq(str, i, j))]

\* the amount of an asset bought on pdate for c whose schedule is sid
AmountForSchedule(pdate, c, sid) ==
    IF MonthsOfSchedule(sid).ok
    THEN Depreciation(pdate, c, MonthsOfSchedule(sid).months,
                      start_date, end_date).amount
    ELSE 0

\* the asset resolved its schedule through its own reference
ViaOwnRef == Processing /\ HasOwnRef(detail) /\ schedule_detail # JNull

\* the asset resolved its schedule through its model
ViaModel ==
    /\ Processing /\ ~HasOwnRef(detail)
    /\ model_detail # JNull /\ schedule_detail # JNull

ModelRefId == Get(Get(model_detail, "depreciation"), "id").n

\* C3: the amount returned is the same function of purchase date, cost,
\* window and schedule whether the schedule was reached through the asset's
\* own reference or through the asset's model.
C3_ModelFallbackSameAmount ==
    /\ (Returned /\ ViaOwnRef) =>
          depr_amount = AmountForSchedule(purchase_date, cost, OwnRefId(detail))
    /\ (Returned /\ ViaModel) =>
          depr_amount = AmountForSchedule(purchase_date, cost, ModelRefId)

\* an asset without own reference got a positive amount through its model
C3_Witness == Returned /\ ViaModel /\ depr_amount > 0

---------------------------------------------------------------------------
(* C4, C5 *)

\* the cost in cents, for costs of at most two decimals
CostCents(c) == c.n * Pow10(2 - c.e)

\* steps 4-8 have run for the asset being processed
Calculated == Returned /\ end_of_life # NoDate

\* purchase 2020-01-01, cost 1200.00, 36 months, window 2020-01-01..2020-12-31
Scenario1 ==
    /\ Calculated
    /\ purchase_date = Date(2020, 1, 1)
    /\ CostCents(cost) = 120000
    /\ life_months = 36
    /\ start_date = Date(2020, 1, 1)
    /\ end_date = Date(2020, 12, 31)

\* C4 as stated: scenario 1 yields end_of_life 2022-12-31, 1096 life days,
\* 366 window days and the amount 400.66.
C4_Scenario1_Original ==
    Scenario1 => /\ end_of_life = Date(2022, 12, 31)
                 /\ total_life_days = 1096
                 /\ depr_days = 366
                 /\ depr_amount = 40066

\* C4, amended: scenario 1 yields end_of_life 2022-12-31, 1096 life days,
\* 366 window days and the amount round(1200.00 / 1096 * 366, 2) = 400.73.
C4_Scenario1 ==
    Scenario1 => /\ end_of_life = Date(2022, 12, 31)
                 /\ total_life_days = 1096
                 /\ depr_days = 366
                 /\ depr_amount = 40073

C4_Witness == Scenario1 /\ ViaOwnRef

\* purchase 2021-06-01, cost 3650.00, 36 months, window 2021-06-01..2021-12-31
Scenario2 ==
    /\ Calculated
    /\ purchase_date = Date(2021, 6, 1)
    /\ CostCents(cost) = 365000
    /\ life_months = 36
    /\ start_date = Date(2021, 6, 1)
    /\ end_date = Date(2021, 12, 31)

\* C5 as stated: scenario 2 yields end_of_life 2024-05-31, 1096 life days,
\* 214 window days and the amount 712.90.
C5_Scenario2_Original ==
    Scenario2 => /\ end_of_life = Date(2024, 5, 31)
                 /\ total_life_days = 1096
                 /\ depr_days = 214
                 /\ depr_amount = 71290

\* C5, amended: scenario 2 yields end_of_life 2024-05-31, 1096 life days,
\* 214 window days and the amount round(3650.00 / 1096 * 214, 2) = 712.68.
C5_Scenario2 ==
    Scenario2 => /\ end_of_life = Date(2024, 5, 31)
                 /\ total_life_days = 1096
                 /\ depr_days = 214
                 /\ depr_amount = 71268

C5_Witness == Scenario2 /\ ViaModel

---------------------------------------------------------------------------
(* C6, C7 *)

\* the useful life [purchase_date, end_of_life] misses the window
NoOverlap ==
    \/ DateLess(end_of_life, start_date)
    \/ DateLess(end_date, purchase_date)

\* C6: an asset whose useful life ends before the window starts, or that was
\* bought after the window ends, gets the amount 0.
C6_NoOverlapYieldsZero == (Calculated /\ NoOverlap) => depr_amount = 0

\* an asset bought after the window's end has been calculated, with a useful
\* life that is not empty
C6_Witness ==
    /\ Calculated
    /\ DateLess(end_date, purchase_date)
    /\ life_months > 0
    /\ ~DateLess(end_date, start_date)

\* the useful life ends on the window's first day
EndsOnWindowStart ==
    /\ Calculated
    /\ end_of_life = start_date
    /\ ~DateLess(end_date, start_date)

\* one day of the asset's straight-line depreciation, in cents
OneDayAmount ==
    LET days == ToOrdinal(end_of_life) - ToOrdinal(purchase_date) + 1
        q    == CostCents(cost) \div days
        r    == CostCents(cost) % days
    IN  IF 2 * r < days \/ (2 * r = days /\ q % 2 = 0) THEN q ELSE q + 1

\* C7 as stated: every asset whose useful life ends on window.start is given
\* exactly one window day and the amount round(cost / total_life_days, 2).
C7_LastDay_Original ==
    EndsOnWindowStart =>
        /\ depr_days = 1
        /\ total_life_days = ToOrdinal(end_of_life) - ToOrdinal(purchase_date) + 1
        /\ depr_amount = OneDayAmount

\* C7, amended: every asset with a useful life of at least one month whose
\* useful life ends on window.start is given exactly one window day and the
\* amount round(cost / total_life_days, 2).
C7_LastDay ==
    (EndsOnWindowStart /\ life_months >= 1) =>
        /\ depr_days = 1
        /\ total_life_days = ToOrdinal(end_of_life) - ToOrdinal(purchase_date) + 1
        /\ depr_amount = OneDayAmount

C7_Witness == EndsOnWindowStart /\ life_months >= 1 /\ depr_amount > 0

---------------------------------------------------------------------------
(* C8 *)

RECURSIVE SumAmounts(_)
SumAmounts(entries) ==
    IF entries = <<>> THEN 0
    ELSE Head(entries).depreciation + SumAmounts(Tail(entries))

\* the tags of the first k summaries that carry an id, in list order
RECURSIVE TagsWithId(_)
TagsWithId(k) ==
    IF k = 0 THEN <<>>
    ELSE IF Get(assets[k], "id").t = "null" THEN TagsWithId(k - 1)
    ELSE Append(TagsWithId(k - 1), TagOf(assets[k]))

\* the loop over the assets is over
LoopDone == pc \in {"write_csv", "qif", "done"}

\* C8: the running total is the sum of the entries' amounts; the assets
\* computed so far are, in list order, the assets with an id before the loop
\* position, each once; the entries are the computed assets with a positive
\* amount, in that order, so that no entry has amount 0; and once the loop is
\* over every summary of the list has been visited.
C8_TotalAndEntries ==
    /\ total_depreciation = SumAmounts(depreciation_entries)
    /\ [i \in 1..Len(computed) |-> computed[i].asset_tag]
          = TagsWithId(IF idx > Len(assets) THEN Len(assets) ELSE idx - 1)
    /\ depreciation_entries = SelectSeq(computed, LAMBDA e : e.depreciation > 0)
    /\ \A i \in 1..Len(depreciation_entries) :
          depreciation_entries[i].depreciation # 0
    /\ LoopDone => idx = Len(assets) + 1

\* a run completed in which one asset got an entry and another, computed with
\* amount 0, got none
C8_Witness ==
    /\ pc = "done"
    /\ Len(computed) >= 2
    /\ Len(depreciation_entries) >= 1
    /\ Len(depreciation_entries) < Len(computed)

---------------------------------------------------------------------------
(* C9 *)

FetchErrors ==
    {"[ERROR] Failed to fetch assets",
     "[ERROR] Failed to fetch details for Asset",
     "[ERROR] Failed to fetch model details for Model",
     "[ERROR] Failed to fetch depreciation schedule"}

\* the run ended by sys.exit(1) or by an uncaught exception
Terminated == pc \in {"exit", "crash"}

EndedBy(errors) == Terminated /\ stdout # <<>> /\ stdout[Len(stdout)] \in errors

\* the CSV summary holds the header and a row for every entry
CsvWritten ==
    /\ Len(csv) = Len(depreciation_entries) + 1
    /\ \A i \in 1..Len(depreciation_entries) :
          /\ csv[i + 1][1] = depreciation_entries[i].asset_tag
          /\ csv[i + 1][2] = Fmt2(depreciation_entries[i].depreciation)

\* the summary line with the total has been printed
TotalReported ==
    \E i \in 1..Len(stdout) :
        stdout[i] = "Depreciation summary written. Total depreciation: "
                    \o Fmt2(total_depreciation) \o " EUR"

\* C9 as stated: no terminated run has written the CSV summary or reported
\* the total; every completed run has done both.
C9_NoSummaryWhenTerminated_Original ==
    /\ Terminated => ~CsvWritten /\ ~TotalReported
    /\ pc = "done" => CsvWritten /\ TotalReported

\* C9, amended: a run that ends by a failed asset-list, asset-detail, model or
\* schedule request has written nothing to the CSV summary and has not
\* reported the total; a terminated run has written the CSV summary and
\* reported the total only if it ended by a failure to write the QIF file;
\* every completed run has written the CSV summary and reported the total.
C9_NoSummaryWhenTerminated ==
    /\ EndedBy(FetchErrors) => csv = <<>> /\ ~TotalReported
    /\ (Terminated /\ ~EndedBy({"[ERROR] Failed to write QIF file"}))
          => ~CsvWritten /\ ~TotalReported
    /\ pc = "done" => CsvWritten /\ TotalReported

\* a run ended by a failed model or schedule request after an entry had been
\* collected
C9_Witness ==
    /\ EndedBy({"[ERROR] Failed to fetch model details for Model",
                "[ERROR] Failed to fetch depreciation schedule"})
    /\ depreciation_entries # <<>>

---------------------------------------------------------------------------
(* C10 *)

\* '%m/%d/%Y' of the window end dates of the command lines
ExpectedQifDate ==
    CASE end_date = Date(2020, 12, 31) -> "12/31/2020"
      [] end_date = Date(2021, 12, 31) -> "12/31/2021"
      [] end_date = Date(2020, 1, 1)   -> "01/01/2020"

\* generate_qif has returned
QifGenerated == pc = "done" /\ args.qif

\* C10: the file holds the header and then, for every entry in entry order,
\* one transaction of eight lines dated at the window's end: the expense
\* account with the amount and the contra account with the same amount
\* behind a minus sign, both with two decimals, and no other split line.
C10_QifTransactions ==
    QifGenerated =>
        /\ Len(qif) = 1 + 8 * Len(depreciation_entries)
        /\ qif[1] = "!Type:Bank"
        /\ \A i \in 1..Len(depreciation_entries) :
              LET base   == 1 + 8 * (i - 1)
                  amount == Fmt2(depreciation_entries[i].depreciation)
              IN  /\ qif[base + 1] = "D" \o ExpectedQifDate
                  /\ qif[base + 2] = "T0.00"
                  /\ qif[base + 3] = "PDepreciation: "
                                     \o depreciation_entries[i].asset_tag
                  /\ qif[base + 4] = "S" \o ExpenseAccount
                  /\ qif[base + 5] = "$" \o amount
                  /\ qif[base + 6] = "S" \o ContraAccount
                  /\ qif[base + 7] = "$-" \o amount
                  /\ qif[base + 8] = "^"

\* a QIF file was generated for two entries
C10_Witness == QifGenerated /\ Len(depreciation_entries) >= 2

---------------------------------------------------------------------------
(* C11 *)

\* the purchase date of record d is absent or is no date
PurchaseDateUnusable(d) ==
    \/ NoPurchaseDate(d)
    \/ ~ParsePurchaseDate(Get(Get(d, "purchase_date"), "date").s).ok

\* the purchase cost of record d is absent or is no number
PurchaseCostUnusable(d) ==
    \/ NoPurchaseCost(d)
    \/ ~ParseFloat(RemoveCommas(Get(d, "purchase_cost").s)).ok

\* positions of the requests of one kind in the log of the asset processed
RequestsOf(kind) == {i \in 1..Len(fetch_log) : fetch_log[i].kind = kind}

\* C11: for the asset being processed, no model or schedule request is issued
\* when its purchase date or cost is absent or unparsable; otherwise at most
\* one schedule request is issued, and a model request is issued at most once,
\* only for an asset without own schedule reference, and before the schedule
\* request.
C11_FetchesPerAsset ==
    Processing =>
        /\ (PurchaseDateUnusable(detail) \/ PurchaseCostUnusable(detail))
              => fetch_log = <<>>
        /\ Cardinality(RequestsOf("schedule")) <= 1
        /\ Cardinality(RequestsOf("model")) <= 1
        /\ RequestsOf("model") # {} => ~HasOwnRef(detail)
        /\ \A i \in RequestsOf("model") : \A j \in RequestsOf("schedule") : i < j
        /\ RequestsOf("model") \cup RequestsOf("schedule") = 1..Len(fetch_log)

\* an asset without own schedule reference has returned after its model and
\* then the model's schedule were requested
C11_Witness ==
    /\ Returned
    /\ ~HasOwnRef(detail)
    /\ Len(fetch_log) = 2
    /\ fetch_log[1].kind = "model"
    /\ fetch_log[2].kind = "schedule"

---------------------------------------------------------------------------
(* C12 *)

\* the trace of an uncaught ZeroDivisionError
DivisionError == "ZeroDivisionError: float division by zero"

\* steps 4-8 for the purchase date, cost and window of the asset being
\* processed, with a useful life of m months
CalcFor(m) == Depreciation(purchase_date, cost, m, start_date, end_date)

\* C12: the division cost / total_life_days is executed only with
\* total_life_days >= 1 (total_life_days stays 0 when the function returns
\* before the division), so no run ends on a division error, and an asset
\* whose schedule parses to 0 months gets the amount 0 without any division.
\* At every purchase date, cost and window for which the calculation is
\* reached, the same holds for every month count from 0 to MaxMonths.
C12_NoDivisionByZero ==
    /\ \A i \in 1..Len(stdout) : stdout[i] # DivisionError
    /\ total_life_days >= 0
    /\ depr_amount > 0 => total_life_days >= 1
    /\ (Calculated /\ life_months = 0) =>
          depr_amount = 0 /\ total_life_days = 0
    /\ pc = "calc" =>
          \A m \in 0..MaxMonths :
              LET r == CalcFor(m) IN
                /\ ~r.raised
                /\ r.total_life_days >= 0
                /\ r.amount > 0 => r.total_life_days >= 1
                /\ m = 0 => r.amount = 0 /\ r.total_life_days = 0

\* an asset whose schedule parsed to 0 months, and whose end of life is not
\* before the window, went through the calculation and returned 0
C12_Witness ==
    /\ Calculated
    /\ life_months = 0
    /\ Get(schedule_detail, "months") = JStr(T_0months)
    /\ ~DateLess(end_of_life, start_date)
    /\ depr_amount = 0

====
